---- MODULE Spec2Model ----
(***************************************************************************)
(* Model of databases/buildSilvaTaxFiles.py: main() selects one of the two *)
(* tree builders (buildPR2Tree, buildSilvaTree), then writes nodes.dmp,    *)
(* names.dmp and the hitid->taxid map.                                     *)
(*                                                                         *)
(* A tree is an arena: a sequence of node records in creation order; a     *)
(* node is referred to by its index in the arena (0 stands for None).      *)
(* A node id is either a Python int or a Python str; the two are kept      *)
(* apart by the records IntId(n) and StrId(k).                             *)
(***************************************************************************)
EXTENDS Integers, Sequences, FiniteSets, TLC

VARIABLES pc, dbType, taxfile, fastaout, idStart, nextId, tree,
          taxaByNameAndRank, taxMap, rootNode, maxTaxid, rowsDone,
          open, opened, nodesDump, namesDump, mapOut, nread,
          inserted, fallbacks

vars == <<pc, dbType, taxfile, fastaout, idStart, nextId, tree,
          taxaByNameAndRank, taxMap, rootNode, maxTaxid, rowsDone,
          open, opened, nodesDump, namesDump, mapOut, nread,
          inserted, fallbacks>>

-----------------------------------------------------------------------------
(* Bounds of the model *)

\* lines read from the fasta file in one run
MaxLines == 2
\* names in a lineage drawn for a header line or a table row
MaxLen == 2

Names == {"a", "b"}
IdStarts == {0, 100}
ExtIds == {5, 7}
TableRanks == {"superkingdom", "domain"}
\* the lineages a rank/ID table may hold a row for
TableKeys == {<<"a">>, <<"a", "b">>}
\* a header of more names than the rank ladder has ranks
LongLineage == <<"a", "a", "a", "a", "a", "a", "a", "a", "b">>

-----------------------------------------------------------------------------
(* Values *)

IntId(n) == [int |-> TRUE, val |-> n]
StrId(k) == [int |-> FALSE, val |-> k]

None == 0

\* the id 'root' given to the synthetic root of buildPR2Tree
RootId == StrId(0)

rankMapping == [r \in {"superkingdom"} |-> "major_clade"]

ranks == <<"domain", "kingdom", "phylum", "class", "order", "family",
           "genus", "species">>

Min(a, b) == IF a < b THEN a ELSE b

SeqsUpTo(S, n) == UNION {[1..k -> S] : k \in 0..n}

Last(s) == s[Len(s)]

\* edl.taxon.TaxNode(taxid, parentid, rank): no parent, no children, name ""
TaxNode(taxid, rank) ==
  [id |-> taxid, name |-> "", rank |-> rank, parent |-> None,
   children |-> <<>>, hasNcbi |-> FALSE, ncbi |-> 0, srcRank |-> ""]

\* node.setParent(parent) for the node just appended at index n of arena t
setParent(t, n, parent) ==
  [t EXCEPT ![n].parent = parent,
            ![parent].children = Append(@, n)]


EmptyMap == [x \in {} |-> 0]

-----------------------------------------------------------------------------
(* Inputs *)

\* a line of the PR2 fasta file: a '>' header, whose text split on "|" is
\* the hit id followed by the names, or any other line.  The hit ids of a
\* file are distinct: the hit id of a line is modelled by its line number
PR2Lines ==
  [kind : {"header"}, names : SeqsUpTo(Names, MaxLen) \cup {LongLineage}]
  \cup {[kind |-> "other", names |-> <<>>]}

\* a line of the Silva fasta file: a '>' header with the fields that
\* line[1:].strip().split(None,1) yields (none, the read id alone, or the
\* read id and the description, itself a lineage), or any other line.  The
\* read id is modelled by the line number
SilvaLines ==
  [kind : {"header"}, fields : {<<>>, <<"read">>}]
  \cup {[kind |-> "header", fields |-> <<"read", l>>] :
           l \in SeqsUpTo(Names, MaxLen) \ {<<>>}}
  \cup {[kind |-> "other", fields |-> <<>>]}

\* the rank/ID table as parseMapFile returns it: lineage -> (rank, id)
Tables ==
  UNION {[K -> [rank : TableRanks, id : ExtIds]] : K \in SUBSET TableKeys}

\* arguments.taxfile: None, or a file holding a table
NoFile == [given |-> FALSE, rows |-> EmptyMap]
TaxFiles == {[given |-> TRUE, rows |-> f] : f \in Tables}

-----------------------------------------------------------------------------
(* buildPR2Tree *)

\* nextId+=1
NewId(nid) == nid + 1

\* the test made on the outer dictionary, whose keys are the ranks: a taxon
\* name is not among them
UnknownAmongRanks(d, i, taxName) ==
  taxName \notin {ranks[k] : k \in 1..Len(ranks)}

\* taxName not in taxaByNameAndRank[rank]
Unknown(d, i, taxName) == <<i, taxName>> \notin DOMAIN d

\* for rank, taxName in zip(ranks,names): ...  from position i on.
\* st = [t: the arena, d: taxaByNameAndRank, nid: nextId, last: lastNode]
RECURSIVE PR2Walk(_, _, _)
PR2Walk(st, names, i) ==
  IF i > Min(Len(ranks), Len(names)) THEN st
  ELSE IF Unknown(st.d, i, names[i])
       THEN LET nid == NewId(st.nid)
                n == Len(st.t) + 1
                newNode == [TaxNode(IntId(nid), "None") EXCEPT
                              !.name = names[i], !.rank = ranks[i]]
                t2 == setParent(Append(st.t, newNode), n, st.last)
            IN  PR2Walk([t |-> t2, d |-> (<<i, names[i]>> :> n) @@ st.d,
                         nid |-> nid, last |-> n], names, i + 1)
       ELSE PR2Walk([st EXCEPT !.last = st.d[<<i, names[i]>>]], names, i + 1)

\* main, lines 51-55, and buildPR2Tree up to the opening of the fasta file
MainBuildPR2 ==
  /\ pc = "main"
  /\ dbType = "pr2"
  /\ tree' = <<[TaxNode(RootId, "None") EXCEPT !.name = "root"]>>
  /\ taxaByNameAndRank' = EmptyMap
  /\ taxMap' = EmptyMap
  /\ nextId' = idStart
  /\ open' = (IF fastaout THEN {"fastaout"} ELSE {}) \cup {"fasta"}
  /\ opened' = (IF fastaout THEN {"fastaout"} ELSE {}) \cup {"fasta"}
  /\ pc' = "pr2_loop"
  /\ UNCHANGED <<dbType, taxfile, fastaout, idStart, rootNode, maxTaxid,
                 rowsDone, nodesDump, namesDump, mapOut, nread, inserted,
                 fallbacks>>

\* one iteration of  for line in f  (lines 122-151)
PR2Line(line) ==
  /\ pc = "pr2_loop"
  /\ nread < MaxLines
  /\ nread' = nread + 1
  /\ IF line.kind = "header"
     THEN LET st == PR2Walk([t |-> tree, d |-> taxaByNameAndRank,
                             nid |-> nextId, last |-> 1], line.names, 1)
          IN  /\ tree' = st.t
              /\ taxaByNameAndRank' = st.d
              /\ nextId' = st.nid
              /\ taxMap' = (nread' :> st.t[st.last].id) @@ taxMap
              /\ inserted' = Append(inserted,
                                [names |-> line.names, node |-> st.last])
     ELSE UNCHANGED <<tree, taxaByNameAndRank, nextId, taxMap, inserted>>
  /\ UNCHANGED <<pc, dbType, taxfile, fastaout, idStart, rootNode, maxTaxid,
                 rowsDone, open, opened, nodesDump, namesDump, mapOut,
                 fallbacks>>

\* the end of the fasta file, and lines 153-164: rootNode.children[0] raises
\* IndexError when the root has no child, before outhandle.close()
PR2EndOfFile ==
  /\ pc = "pr2_loop"
  /\ IF Len(tree[1].children) = 0
     THEN /\ pc' = "error"
          /\ open' = open \ {"fasta"}
          /\ UNCHANGED rootNode
     ELSE /\ pc' = "built"
          /\ rootNode' = tree[1].children[1]
          /\ open' = open \ {"fasta", "fastaout"}
  /\ UNCHANGED <<dbType, taxfile, fastaout, idStart, nextId, tree,
                 taxaByNameAndRank, taxMap, maxTaxid, rowsDone, opened,
                 nodesDump, namesDump, mapOut, nread, inserted, fallbacks>>

-----------------------------------------------------------------------------
(* edl: the tree operations buildSilvaTree and writeDumpFiles call *)

\* the child of node n named name, or None
ChildNamed(t, n, name) ==
  LET c == {k \in 1..Len(t) : t[k].parent = n /\ t[k].name = name}
  IN  IF c = {} THEN None ELSE CHOOSE k \in c : TRUE

\* edl.silva.SilvaTaxNode.addToTreeFromString(lineage, tree) from position
\* i on: descend into the child of that name, or create it (its id is not
\* an int until the sanity pass).  st = [t: the arena, last: the node]
RECURSIVE addToTreeFromString(_, _, _)
addToTreeFromString(st, names, i) ==
  IF i > Len(names) THEN st
  ELSE LET c == ChildNamed(st.t, st.last, names[i])
       IN  IF c = None
           THEN LET n == Len(st.t) + 1
                    newNode == [TaxNode(StrId(n), "None") EXCEPT
                                  !.name = names[i]]
                IN  addToTreeFromString(
                      [t |-> setParent(Append(st.t, newNode), n, st.last),
                       last |-> n], names, i + 1)
           ELSE addToTreeFromString([st EXCEPT !.last = c], names, i + 1)

\* edl.util.treeGenerator(node): the node, then its children's subtrees
RECURSIVE treeGenerator(_, _)
RECURSIVE GenChildren(_, _, _)
treeGenerator(t, n) == <<n>> \o GenChildren(t, t[n].children, 1)
GenChildren(t, kids, i) ==
  IF i > Len(kids) THEN <<>>
  ELSE treeGenerator(t, kids[i]) \o GenChildren(t, kids, i + 1)

\* node.getRootNode(): follow the parent links up
RECURSIVE getRootNode(_, _)
getRootNode(t, n) == IF t[n].parent = None THEN n ELSE getRootNode(t, t[n].parent)

\* edl.taxon.ranks, the ranks the dump keeps: the ladder, and with or
\* without the alias
RankVocabularies ==
  {{ranks[i] : i \in 1..Len(ranks)} \cup {"superkingdom"},
   {ranks[i] : i \in 1..Len(ranks)} \cup {"superkingdom", "major_clade"}}

-----------------------------------------------------------------------------
(* buildSilvaTree *)

Max(S) == CHOOSE m \in S : \A x \in S : x <= m

\* the high-water mark left unseeded
MaxTaxidUnseeded(table) == 0

\* maxTaxid=max(silvaTaxidMap.values())
InitialMaxTaxid(table) == Max({table[k].id : k \in DOMAIN table})

\* rankMapping.get(rank,rank)
rankMappingGet(rank) ==
  IF rank \in DOMAIN rankMapping THEN rankMapping[rank] ELSE rank

\* the mark assigned without being incremented
FallbackIdNoIncrement(m) == m

\* maxTaxid+=1; node.id=maxTaxid
FallbackId(m) == m + 1

\* the missing table noticed only after the dump files were opened
MainNoTaxfileAfterOpen ==
  /\ pc = "main"
  /\ dbType = "silva"
  /\ ~taxfile.given
  /\ opened' = opened \cup {"nodes", "names"}
  /\ pc' = "exit"
  /\ UNCHANGED <<dbType, taxfile, fastaout, idStart, nextId, tree,
                 taxaByNameAndRank, taxMap, rootNode, maxTaxid, rowsDone,
                 open, nodesDump, namesDump, mapOut, nread, inserted,
                 fallbacks>>

\* main, lines 57-58: parser.error exits the program
MainNoTaxfile ==
  /\ pc = "main"
  /\ dbType = "silva"
  /\ ~taxfile.given
  /\ pc' = "exit"
  /\ UNCHANGED <<dbType, taxfile, fastaout, idStart, nextId, tree,
                 taxaByNameAndRank, taxMap, rootNode, maxTaxid, rowsDone,
                 open, opened, nodesDump, namesDump, mapOut, nread, inserted,
                 fallbacks>>

\* main, line 59, and buildSilvaTree, lines 172-177: max() of an empty
\* table raises ValueError
MainBuildSilva ==
  /\ pc = "main"
  /\ dbType = "silva"
  /\ taxfile.given
  /\ opened' = {"taxfile"}
  /\ tree' = <<>>
  /\ taxMap' = EmptyMap
  /\ IF DOMAIN taxfile.rows = {}
     THEN /\ pc' = "error"
          /\ UNCHANGED maxTaxid
     ELSE /\ pc' = "silva_table"
          /\ maxTaxid' = InitialMaxTaxid(taxfile.rows)
  /\ UNCHANGED <<dbType, taxfile, fastaout, idStart, nextId,
                 taxaByNameAndRank, rootNode, rowsDone, open,
                 nodesDump, namesDump, mapOut, nread, inserted, fallbacks>>

\* the tree with its root made, as addToTreeFromString finds or makes it
WithRoot(t) ==
  IF t = <<>> THEN <<[TaxNode(StrId(1), "None") EXCEPT !.name = "root"]>>
  ELSE t

\* one iteration of  for (lineage, rank) in rankMap.items()  (lines 178-183);
\* after the last one the fasta file is opened by the generator
SilvaTableRow(lineage) ==
  /\ pc = "silva_table"
  /\ lineage \in DOMAIN taxfile.rows \ rowsDone
  /\ LET st == addToTreeFromString([t |-> WithRoot(tree), last |-> 1],
                                   lineage, 1)
     IN  tree' = [st.t EXCEPT
                    ![st.last].rank = rankMappingGet(taxfile.rows[lineage].rank),
                    ![st.last].srcRank = taxfile.rows[lineage].rank,
                    ![st.last].hasNcbi = TRUE,
                    ![st.last].ncbi = taxfile.rows[lineage].id]
  /\ rowsDone' = rowsDone \cup {lineage}
  /\ IF rowsDone' = DOMAIN taxfile.rows
     THEN /\ pc' = "silva_fasta"
          /\ open' = open \cup {"fasta"}
          /\ opened' = opened \cup {"fasta"}
     ELSE UNCHANGED <<pc, open, opened>>
  /\ UNCHANGED <<dbType, taxfile, fastaout, idStart, nextId,
                 taxaByNameAndRank, taxMap, rootNode, maxTaxid,
                 nodesDump, namesDump, mapOut, nread, inserted, fallbacks>>

\* one line of getOrgsFromSilvaFasta (lines 94-97) and, for the pair it
\* yields, one iteration of the loop of lines 189-191.  Unpacking anything but
\* two fields raises ValueError, which leaves the with block (the file is
\* closed) and buildSilvaTree
SilvaRecord(line) ==
  /\ pc = "silva_fasta"
  /\ nread < MaxLines
  /\ nread' = nread + 1
  /\ IF line.kind = "header"
     THEN IF Len(line.fields) = 2
          THEN LET st == addToTreeFromString([t |-> tree, last |-> 1],
                                             line.fields[2], 1)
               IN  /\ tree' = st.t
                   /\ taxMap' = (nread' :> [node |-> st.last]) @@ taxMap
                   /\ UNCHANGED <<pc, open>>
          ELSE /\ pc' = "error"
               /\ open' = open \ {"fasta"}
               /\ UNCHANGED <<tree, taxMap>>
     ELSE UNCHANGED <<pc, open, tree, taxMap>>
  /\ UNCHANGED <<dbType, taxfile, fastaout, idStart, nextId,
                 taxaByNameAndRank, rootNode, maxTaxid, rowsDone, opened,
                 nodesDump, namesDump, mapOut, inserted, fallbacks>>

\* for node in treeGenerator(rootNode) (lines 197-203), from position i of
\* the traversal on.  st = [t: the arena, m: maxTaxid, fb: the ids the else
\* branch has assigned, in order]
RECURSIVE SanityPass(_, _, _)
SanityPass(st, order, i) ==
  IF i > Len(order) THEN st
  ELSE LET n == order[i]
       IN  IF st.t[n].id.int THEN SanityPass(st, order, i + 1)
           ELSE IF st.t[n].hasNcbi
                THEN SanityPass([st EXCEPT !.t[n].id = IntId(st.t[n].ncbi)],
                                order, i + 1)
                ELSE LET m == FallbackId(st.m)
                     IN  SanityPass([t |-> [st.t EXCEPT ![n].id = IntId(m)],
                                     m |-> m, fb |-> Append(st.fb, m)],
                                    order, i + 1)

\* the end of the fasta file, and lines 193-211
SilvaEndOfFile ==
  /\ pc = "silva_fasta"
  /\ LET root == getRootNode(tree, 1)
         st == SanityPass([t |-> tree, m |-> maxTaxid, fb |-> <<>>],
                          treeGenerator(tree, root), 1)
     IN  /\ rootNode' = root
         /\ tree' = st.t
         /\ maxTaxid' = st.m
         /\ fallbacks' = st.fb
         /\ taxMap' = [h \in DOMAIN taxMap |-> st.t[taxMap[h].node].id]
  /\ open' = open \ {"fasta"}
  /\ pc' = "built"
  /\ UNCHANGED <<dbType, taxfile, fastaout, idStart, nextId,
                 taxaByNameAndRank, rowsDone, opened, nodesDump, namesDump,
                 mapOut, nread, inserted>>

-----------------------------------------------------------------------------
(* writeDumpFiles and the rest of main *)

\* the alias, not "domain", written as "superkingdom"
DumpRankOfAlias(rank, vocabulary) ==
  IF rank = "major_clade" THEN "superkingdom"
  ELSE IF rank \in vocabulary THEN rank
  ELSE "no rank"

\* lines 83-88: the rank written for a node
DumpRank(rank, vocabulary) ==
  IF rank = "domain" THEN "superkingdom"
  ELSE IF rank \in vocabulary THEN rank
  ELSE "no rank"

\* lines 77-82 and 89: the nodes.dmp line of node n
NodeLine(t, root, n, vocabulary) ==
  [id |-> t[n].id,
   parent |-> IF n = root THEN t[n].id ELSE t[t[n].parent].id,
   rank |-> DumpRank(t[n].rank, vocabulary)]

\* line 90: the names.dmp line of node n
NameLine(t, n) == [id |-> t[n].id, name |-> t[n].name]

\* main, lines 61-68: both dump files are opened, written and closed
DumpTaxonomy ==
  /\ pc = "built"
  /\ \E vocabulary \in RankVocabularies :
       LET order == treeGenerator(tree, rootNode)
       IN  /\ nodesDump' = [i \in 1..Len(order) |->
                              NodeLine(tree, rootNode, order[i], vocabulary)]
           /\ namesDump' = [i \in 1..Len(order) |-> NameLine(tree, order[i])]
  /\ opened' = opened \cup {"nodes", "names"}
  /\ pc' = "dumped"
  /\ UNCHANGED <<dbType, taxfile, fastaout, idStart, nextId, tree,
                 taxaByNameAndRank, taxMap, rootNode, maxTaxid, rowsDone,
                 open, mapOut, nread, inserted, fallbacks>>

\* main, lines 70-73: the hitid->taxid table
WriteTaxMap ==
  /\ pc = "dumped"
  /\ mapOut' = {[hitid |-> h, taxid |-> taxMap[h]] : h \in DOMAIN taxMap}
  /\ opened' = opened \cup {"taxmap"}
  /\ pc' = "done"
  /\ UNCHANGED <<dbType, taxfile, fastaout, idStart, nextId, tree,
                 taxaByNameAndRank, taxMap, rootNode, maxTaxid, rowsDone,
                 open, nodesDump, namesDump, nread, inserted, fallbacks>>

-----------------------------------------------------------------------------
(* The program *)

Init ==
  /\ pc = "main"
  /\ dbType \in {"pr2", "silva"}
  /\ IF dbType = "pr2"
     THEN /\ fastaout \in BOOLEAN
          /\ idStart \in IdStarts
          /\ taxfile = NoFile
     ELSE /\ fastaout = FALSE
          /\ idStart = 0
          /\ taxfile \in TaxFiles \cup {NoFile}
  /\ nextId = 0
  /\ tree = <<>>
  /\ taxaByNameAndRank = EmptyMap
  /\ taxMap = EmptyMap
  /\ rootNode = None
  /\ maxTaxid = 0
  /\ rowsDone = {}
  /\ open = {}
  /\ opened = {}
  /\ nodesDump = <<>>
  /\ namesDump = <<>>
  /\ mapOut = {}
  /\ nread = 0
  /\ inserted = <<>>
  /\ fallbacks = <<>>

Next ==
  \/ MainBuildPR2
  \/ \E line \in PR2Lines : PR2Line(line)
  \/ PR2EndOfFile
  \/ MainNoTaxfile
  \/ MainBuildSilva
  \/ \E lineage \in TableKeys : SilvaTableRow(lineage)
  \/ \E line \in SilvaLines : SilvaRecord(line)
  \/ SilvaEndOfFile
  \/ DumpTaxonomy
  \/ WriteTaxMap

Spec == Init /\ [][Next]_vars

-----------------------------------------------------------------------------
(* Notions the properties are stated with *)

Built == pc \in {"built", "dumped", "done"}

\* a lineage as the rank ladder keeps it
Truncate(names) == SubSeq(names, 1, Min(Len(names), Len(ranks)))

\* the non-empty prefixes of a lineage
Prefixes(names) == {SubSeq(names, 1, k) : k \in 1..Len(names)}

\* the names met from the synthetic root (excluded) down to node n
RECURSIVE PathNames(_, _)
PathNames(t, n) ==
  IF t[n].parent = None THEN <<>>
  ELSE Append(PathNames(t, t[n].parent), t[n].name)

\* the node reached from node n by following the names from position i on,
\* or None
RECURSIVE Follow(_, _, _, _)
Follow(t, n, names, i) ==
  IF n = None \/ i > Len(names) THEN n
  ELSE Follow(t, ChildNamed(t, n, names[i]), names, i + 1)

\* the nodes a traversal from the returned root visits
Reachable == {treeGenerator(tree, rootNode)[i] :
                i \in 1..Len(treeGenerator(tree, rootNode))}

\* the external ids of the rank/ID table
TableIds == {taxfile.rows[k].id : k \in DOMAIN taxfile.rows}

-----------------------------------------------------------------------------
(* Properties *)

\* C1: in buildPR2Tree, two insertions of the same lineage end at the same
\* node id, and the number of nodes created (the synthetic root excluded)
\* is the number of distinct non-empty prefixes of the inserted lineages,
\* each cut to the rank ladder.
C1_DedupInvariant ==
  dbType = "pr2" /\ pc = "pr2_loop" =>
    /\ \A i, j \in 1..Len(inserted) :
         Truncate(inserted[i].names) = Truncate(inserted[j].names)
           => tree[inserted[i].node].id = tree[inserted[j].node].id
    /\ Len(tree) - 1 =
         Cardinality(UNION {Prefixes(Truncate(inserted[i].names)) :
                              i \in 1..Len(inserted)})

\* C2: in buildPR2Tree, the parent links from the node recorded for a
\* lineage spell that lineage (cut to the rank ladder) back to the
\* synthetic root, whatever was inserted before.
C2_PathReflectsLineage ==
  dbType = "pr2" /\ pc = "pr2_loop" =>
    \A i \in 1..Len(inserted) :
      PathNames(tree, inserted[i].node) = Truncate(inserted[i].names)

\* C3 as stated: after either builder has returned, for any table, no two
\* nodes reachable from the returned root carry the same id, and no two
\* lines of the nodes dump start with the same id.
C3_IdsUnique ==
  /\ Built => \A m, n \in Reachable : m # n => tree[m].id # tree[n].id
  /\ \A i, j \in 1..Len(nodesDump) :
       i # j => nodesDump[i].id # nodesDump[j].id

\* C3 as amended: the same, for buildPR2Tree with any idStart and for
\* buildSilvaTree with a table whose external ids are pairwise distinct.
C3_IdsUniqueDistinctTable ==
  (dbType = "silva" =>
     \A k, l \in DOMAIN taxfile.rows :
       k # l => taxfile.rows[k].id # taxfile.rows[l].id)
  => C3_IdsUnique

C3_Witness ==
  /\ pc = "done"
  /\ dbType = "silva"
  /\ Cardinality(TableIds) = 2
  /\ Len(fallbacks) >= 2
  /\ Len(nodesDump) >= 4

\* C4: in buildSilvaTree, every id the fallback branch assigns is greater
\* than the greatest external id of the table, the fallback ids increase
\* strictly in the order they are assigned (so none equals an external id
\* or another fallback id), and they are the ids of the nodes that have no
\* external id.
C4_FallbackAboveMax ==
  dbType = "silva" /\ Built =>
    /\ \A i \in 1..Len(fallbacks) : \A x \in TableIds : fallbacks[i] > x
    /\ \A i, j \in 1..Len(fallbacks) : i < j => fallbacks[i] < fallbacks[j]
    /\ {tree[n].id : n \in {m \in Reachable : ~tree[m].hasNcbi}}
         = {IntId(fallbacks[i]) : i \in 1..Len(fallbacks)}

C4_Witness ==
  /\ dbType = "silva"
  /\ pc = "built"
  /\ Len(fallbacks) >= 3
  /\ Cardinality(TableIds) = 2

\* C5 as stated: a node whose table row carries the rank "superkingdom" is
\* written with the rank "superkingdom" in its nodes-dump line.
C5_SuperkingdomRoundTrip ==
  dbType = "silva" /\ pc \in {"dumped", "done"} =>
    \A i \in 1..Len(nodesDump) :
      tree[treeGenerator(tree, rootNode)[i]].srcRank = "superkingdom"
        => nodesDump[i].rank = "superkingdom"

\* C5 as amended: a node whose table row carries the rank "superkingdom" is
\* kept under the alias "major_clade" and written with that alias, or with
\* "no rank" when the dump's vocabulary lacks the alias, never with
\* "superkingdom"; the nodes written "superkingdom" are those whose row
\* carries "domain".
C5_SuperkingdomWrittenAsAlias ==
  dbType = "silva" /\ pc \in {"dumped", "done"} =>
    \A i \in 1..Len(nodesDump) :
      LET node == tree[treeGenerator(tree, rootNode)[i]]
      IN  /\ node.srcRank = "superkingdom"
               => /\ node.rank = "major_clade"
                  /\ nodesDump[i].rank \in {"major_clade", "no rank"}
          /\ nodesDump[i].rank = "superkingdom" <=> node.srcRank = "domain"

C5_Witness ==
  /\ dbType = "silva"
  /\ pc = "done"
  /\ \E i, j \in 1..Len(nodesDump) :
       /\ tree[treeGenerator(tree, rootNode)[i]].srcRank = "superkingdom"
       /\ nodesDump[i].rank = "major_clade"
       /\ tree[treeGenerator(tree, rootNode)[j]].srcRank = "domain"

\* C6: in buildPR2Tree with start value s, the i-th node created has id
\* s+i, the counter never decreases, and a header line whose whole lineage
\* is already in the tree creates no node and leaves the counter unchanged.
C6_SequentialIds ==
  [][dbType = "pr2" /\ pc = "pr2_loop" =>
       /\ \A i \in 2..Len(tree') : tree'[i].id = IntId(idStart + i - 1)
       /\ nextId' = idStart + Len(tree') - 1
       /\ nextId' >= nextId
       /\ (/\ Len(inserted') = Len(inserted) + 1
           /\ Follow(tree, 1, Truncate(Last(inserted').names), 1) # None)
          => tree' = tree /\ nextId' = nextId]_vars

C6_Witness ==
  /\ dbType = "pr2"
  /\ idStart = 100
  /\ Len(inserted) = 2
  /\ inserted[1].names = inserted[2].names
  /\ Len(inserted[1].names) = 2
  /\ Len(tree) = 3
  /\ nextId = 102

\* C7: in every terminal state of the program, normal or abnormal, no
\* input stream and no output stream is still open.
C7_AllStreamsReleased ==
  pc \in {"done", "error", "exit"} => open = {}

\* C8: a header line of the Silva fasta file that cannot be parsed is
\* skipped: reading a line never ends the run of buildSilvaTree.
C8_MalformedLineSkipped ==
  dbType = "silva" /\ nread > 0 => pc # "error"

\* C9: none of nodes.dmp, names.dmp and the record-map file is opened or
\* written before the selected builder has returned its root and record
\* map; a run that ends in parser.error or in a failure of the builder has
\* opened and written none of them.
C9_BuildPrecedesDump ==
  /\ (\/ opened \cap {"nodes", "names", "taxmap"} # {}
      \/ nodesDump # <<>> \/ namesDump # <<>> \/ mapOut # {})
     => /\ pc \in {"dumped", "done"}
        /\ rootNode # None
        /\ \A h \in DOMAIN taxMap : "int" \in DOMAIN taxMap[h]
  /\ "taxmap" \in opened => {"nodes", "names"} \subseteq opened

C9_Witness ==
  /\ pc = "done"
  /\ {"nodes", "names", "taxmap"} \subseteq opened
  /\ mapOut # {}
  /\ nodesDump # <<>>

\* C10: after buildPR2Tree, writeDumpFiles and the record-map write, every
\* taxon id of the record map is an integer that is the id of exactly one
\* line of the nodes dump.
C10_MapIdsInNodesDump ==
  dbType = "pr2" /\ pc = "done" =>
    \A e \in mapOut :
      /\ e.taxid.int
      /\ Cardinality({i \in 1..Len(nodesDump) :
                        nodesDump[i].id = e.taxid}) = 1

====
